---- MODULE Spec2Model ----
(***************************************************************************)
(* Model of the background job queue of flugo                              *)
(* (src/container/container.go, package queue, lines 439-808).             *)
(*                                                                         *)
(* A *Job is a slot of `heap`, the k-th Job created being slot k; the      *)
(* buffered channel q.jobs is the sequence `jobs` of such slots together   *)
(* with the flag `closed`.  A Job that is neither buffered nor held by a   *)
(* worker is garbage and its slot is cleared.                              *)
(* Every access to shared state (the channel, the stats block, the handler *)
(* registry) is one atomic step; writes to the fields of a Job the worker  *)
(* holds are local to that worker and are joined to the step that decides  *)
(* them.  A panic that no frame recovers ends the program: `crashed`.      *)
(*                                                                         *)
(* The environment: Start and Stop are each called at most once, producers *)
(* call Push and PushDelay at any time (before Start, while running, after *)
(* Stop), handlers are registered at any time and end by returning nil,    *)
(* returning an error or panicking.                                        *)
(***************************************************************************)
EXTENDS Integers, Sequences, FiniteSets, TLC

\* ------------------------------------------------------------------ bounds
\* Buffer size of q.jobs.  The source uses 1000 (NewQueue, line 505); the
\* model scales it down, no step of the code depends on the value itself.
Capacity == 1
\* Number of workers handed to NewQueue (q.workers).
Workers == 2
\* Number of Job records created by Push during one run.
MaxJobs == 2

WorkerIds == 1..Workers
\* The maxRetry arguments producers hand to Push: Push takes any int.
RetryArgs == {0, 2}
\* The maxRetry of the runs that follow a Job through several backoffs.
BackoffRetryArgs == {4}
JobTypes == {"email"}
\* The job types of the handlers the package registers in its init().
BuiltinTypes == {"send_email", "image_process", "data_export",
                 "webhook_call", "notification"}
AllTypes == JobTypes \cup BuiltinTypes
\* The handler init() registers for a built-in type.
BuiltinHandler(jobType) == "builtin"
\* The maxRetry of the package-level Push and PushDelay.
DefaultMaxRetry == 3
\* var DefaultQueue *Queue: nil until Init assigns it.
NilQueue == "nil"
\* No *QueueStats returned yet.
NoRet == [ref |-> "none", val |-> <<>>]
HandlerIds == {"h1"}
\* The handlers of the runs that register more than one.
AllHandlerIds == HandlerIds \cup {"h2"}
NoHandler == "none"
NilJob == 0
Slots == 1..MaxJobs
\* The content of a free slot.
NoJob == [type |-> "", maxRetry |-> 0, attempts |-> 0, status |-> "",
          error |-> "", updatedAt |-> 0]

\* ------------------------------------------------------------------- state
VARIABLES
    jobs,       \* q.jobs: the buffered channel's contents, oldest first
    closed,     \* q.jobs has been closed (Stop, line 529)
    cancelled,  \* q.ctx has been cancelled (Stop, line 528)
    handlers,   \* q.handlers: job type -> handler, or NoHandler
    stats,      \* q.stats: Processed, Failed, Retried, Active
    heap,       \* the Job records: slot -> Job, NoJob when free
    created,    \* number of Job records created so far
    lastPush,   \* how the most recent call of Push ended, or the refusal
                \* of a package-level helper called without a queue
    started,    \* Start has spawned the workers
    pc,         \* position of each worker goroutine
    cur,        \* the *Job each worker holds (NilJob when none)
    delayed,    \* pending PushDelay goroutines: their captured arguments
    stopPc,     \* position of the caller of Stop
    crashed,    \* an unrecovered panic has ended the program
    ghost,      \* per Job history: what happened to it so far
    tally,      \* history: pushes accepted, completions, failures and
                \* requeues counted so far
    defaultQueue, \* the package variable DefaultQueue: NilQueue or the queue
    prog,       \* the program: loading its packages, or past that
    ret,        \* the *QueueStats a caller of GetStats holds
    chanCap     \* cap(q.jobs): the buffer size q.jobs was made with

vars == <<jobs, closed, cancelled, handlers, stats, heap, created, lastPush,
          started, pc, cur, delayed, stopPc, crashed, ghost, tally,
          defaultQueue, prog, ret, chanCap>>

\* ----------------------------------------------------------------- helpers
StatusPending == "pending"
StatusProcessing == "processing"
StatusCompleted == "completed"
StatusFailed == "failed"
StatusRetrying == "retrying"

Size == Len(jobs)

\* Faulty variant of NewJob: the first attempt is counted at creation.
NewJob_AttemptsOne(jobType, maxRetry) ==
    [type |-> jobType, maxRetry |-> maxRetry, attempts |-> 1,
     status |-> StatusPending, error |-> "", updatedAt |-> 0]

\* The Job literal of Push: Attempts and Error keep their zero values,
\* UpdatedAt is the time of creation, the origin of the Job's own time.
NewJob(jobType, maxRetry) ==
    [type |-> jobType, maxRetry |-> maxRetry, attempts |-> 0,
     status |-> StatusPending, error |-> "", updatedAt |-> 0]

\* time.Now() at a write of job.UpdatedAt: later than the time t the field
\* held.  A Job's time is counted in such writes.
Now(t) == t + 1

\* History of a Job: its handler invocations and their outcomes, what it
\* added to each counter, whether a requeue found the channel full, whether
\* it was created after the channel was closed, whether it was received
\* from the closed channel, whether it was dequeued without a handler, the
\* handler of its latest dispatch and its latest backoff delay in seconds.
NewGhost(isClosed) ==
    [calls |-> 0, first |-> "none", oks |-> 0, cP |-> 0, cF |-> 0, cR |-> 0,
     full |-> FALSE, late |-> isClosed, deqClosed |-> FALSE, nh |-> FALSE,
     by |-> NoHandler, delay |-> 0]

NoGhost == NewGhost(FALSE)

Range(f) == {f[x] : x \in DOMAIN f}

\* The slots some reference reaches: buffered in the channel or held by a
\* worker.
Live == Range(jobs) \cup (Range(cur) \ {NilJob})

\* The workers run the same code and carry no identity, so the waiting
\* worker whose select fires next is named as the lowest-numbered one: any
\* other choice leads to the same state up to renaming the workers.
FirstWaiting(w) == \A v \in WorkerIds : pc[v] = "idle" => w <= v

\* Faulty variant of TrySend: a closed channel accepts sends.
TrySend_IgnoreClosed(isClosed, len) ==
    IF len < chanCap THEN "sent" ELSE "full"

\* select { case q.jobs <- job: ... default: ... }: a send on a closed
\* channel panics whatever the buffer holds; otherwise the send is taken
\* if the buffer has room and the default branch if it has not.
TrySend(isClosed, len) ==
    IF isClosed THEN "panic"
    ELSE IF len < chanCap THEN "sent" ELSE "full"

\* Faulty variant of ShouldRetry: the retry budget is not consulted.
ShouldRetry_IgnoresBudget(attempts, maxRetry) == TRUE

\* Faulty variant of ShouldRetry: one retry too many.
ShouldRetry_OffByOne(attempts, maxRetry) == attempts <= maxRetry

\* if job.Attempts < job.MaxRetry
ShouldRetry(attempts, maxRetry) == attempts < maxRetry

\* Faulty variant of BackoffSeconds: the delay grows linearly.
BackoffSeconds_Linear(attempts) == attempts

\* delay := time.Duration(job.Attempts*job.Attempts) * time.Second, in
\* seconds.
BackoffSeconds(attempts) == attempts * attempts

\* Faulty variant of Dispatch: every registered type is run by the handler
\* h1, whichever handler was registered for it.
Dispatch_Fixed(hs, jobType) ==
    IF hs[jobType] = NoHandler THEN NoHandler ELSE "h1"

\* handler, exists := q.handlers[job.Type]
Dispatch(hs, jobType) == hs[jobType]

\* err.Error() of the error the handler returned from its k-th invocation
\* for a Job: every invocation has a message of its own.
ErrMsg(k) ==
    <<"handler error 1", "handler error 2", "handler error 3",
      "handler error 4">>[k]

\* Faulty variant of ErrorAfterFailure: only the first failure is recorded.
ErrorAfterFailure_KeepFirst(prev, msg) == IF prev = "" THEN msg ELSE prev

\* job.Error = err.Error(): the field takes the message of this failure,
\* whatever it held.
ErrorAfterFailure(prev, msg) == msg

\* Faulty variant of Resubmit: the Job offered is lost.
Resubmit_Lost(q, j) == q

\* case q.jobs <- job, taken: the same *Job goes to the back of the channel.
Resubmit(q, j) == Append(q, j)

\* Faulty variant of Received: the receive yields the newest element.
Received_Last(q) == q[Len(q)]

\* job := <-q.jobs on a non-empty buffer: the value received is the oldest
\* element.
Received(q) == Head(q)

\* Faulty variant of Dequeue: the element received stays in the buffer.
Dequeue_Keep(q) == q

\* The buffer after that receive: the element is removed.
Dequeue(q) == Tail(q)

\* Faulty variant of RequeueFullStatus: the Job is left retrying.
RequeueFullStatus_Retrying == StatusRetrying

\* job.Status = StatusFailed in the default branch of the resubmission.
RequeueFullStatus == StatusFailed

\* Faulty variant of ActiveInc: the entry is counted twice.
ActiveInc_Twice(s) == [s EXCEPT !.Active = @ + 2]

\* q.stats.Active++ on entry of processJob
ActiveInc(s) == [s EXCEPT !.Active = @ + 1]

\* Faulty variant of ActiveDec: the decrement is not deferred and is lost.
ActiveDec_Missing(s) == s

\* the deferred q.stats.Active--
ActiveDec(s) == [s EXCEPT !.Active = @ - 1]

\* Faulty variant of ProcessedInc: a completion is counted twice.
ProcessedInc_Twice(s) == [s EXCEPT !.Processed = @ + 2]

\* q.stats.Processed++
ProcessedInc(s) == [s EXCEPT !.Processed = @ + 1]

\* Faulty variant of FailedInc: a failure is counted twice.
FailedInc_Twice(s) == [s EXCEPT !.Failed = @ + 2]

\* q.stats.Failed++
FailedInc(s) == [s EXCEPT !.Failed = @ + 1]

\* Faulty variant of RetriedInc: a resubmission is counted twice.
RetriedInc_Twice(s) == [s EXCEPT !.Retried = @ + 2]

\* q.stats.Retried++
RetriedInc(s) == [s EXCEPT !.Retried = @ + 1]

\* Faulty variant of NoHandlerStats: the failure also counts as a retry.
NoHandlerStats_AlsoRetried(s) == RetriedInc(FailedInc(s))

\* The stats update of the branch taken when no handler is registered.
NoHandlerStats(s) == FailedInc(s)

\* The shape of the state: the fields of Queue, Job and QueueStats, and the
\* positions of the goroutines.
TypeOK ==
    /\ jobs \in Seq(Slots) /\ Len(jobs) <= chanCap
    /\ chanCap \in {Capacity, Capacity + 1}
    /\ closed \in BOOLEAN /\ cancelled \in BOOLEAN
    /\ handlers \in [AllTypes -> AllHandlerIds \cup {NoHandler}
                                \cup {BuiltinHandler(t) : t \in BuiltinTypes}]
    /\ \A f \in {"Processed", "Failed", "Retried", "Active"} : stats[f] \in Int
    /\ \A j \in Slots :
         \/ heap[j] = NoJob
         \/ /\ heap[j].type \in AllTypes
            /\ heap[j].maxRetry \in RetryArgs \cup BackoffRetryArgs
                                              \cup {DefaultMaxRetry}
            /\ heap[j].attempts \in Nat
            /\ heap[j].updatedAt \in Nat
            /\ heap[j].status \in {StatusPending, StatusProcessing,
                                   StatusCompleted, StatusFailed,
                                   StatusRetrying}
    /\ created \in 0..MaxJobs
    /\ lastPush \in {"none", "nil", "queue is full", "panic",
                    "queue not initialized"}
    /\ started \in BOOLEAN /\ crashed \in BOOLEAN
    /\ pc \in [WorkerIds -> {"unstarted", "idle", "enter", "stopped", "dead"}
                             \cup {"lookup", "handler", "nohandler", "sleep",
                                   "retried", "failed", "completed", "return"}]
    /\ cur \in [WorkerIds -> Slots \cup {NilJob}]
    /\ \A w \in WorkerIds : (cur[w] = NilJob) <=> (pc[w] \in {"unstarted", "idle", "stopped"})
    /\ stopPc \in {"idle", "closing", "returned"}
    /\ (stopPc # "idle") = cancelled /\ (stopPc = "returned") = closed
    /\ \A f \in {"A", "P", "F", "R"} : tally[f] \in Nat
    /\ defaultQueue \in {NilQueue, "default"}
    /\ prog \in {"load", "main"}
    /\ ret.ref \in {"none", "copy", "live"}

\* -------------------------------------------------------------------- Init
\* The fields NewQueue gives a Queue, and the goroutines not yet started.
QueueInit ==
    /\ jobs = <<>>
    /\ closed = FALSE
    /\ cancelled = FALSE
    /\ handlers = [t \in AllTypes |-> NoHandler]
    /\ stats = [Processed |-> 0, Failed |-> 0, Retried |-> 0, Active |-> 0]
    /\ heap = [j \in Slots |-> NoJob]
    /\ created = 0
    /\ lastPush = "none"
    /\ started = FALSE
    /\ pc = [w \in WorkerIds |-> "unstarted"]
    /\ cur = [w \in WorkerIds |-> NilJob]
    /\ delayed = <<>>
    /\ stopPc = "idle"
    /\ crashed = FALSE
    /\ ghost = [j \in Slots |-> NoGhost]
    /\ tally = [A |-> 0, P |-> 0, F |-> 0, R |-> 0]
    /\ ret = NoRet

\* A queue made by NewQueue in a running program; it is not the default
\* queue.
Init ==
    /\ QueueInit
    /\ chanCap = Capacity
    /\ prog = "main"
    /\ defaultQueue = NilQueue

\* ----------------------------------------------------------------- actions
\* Queue.RegisterHandler: q.handlers[jobType] = handler, under q.mu.
RegisterHandler(jobType, handler) ==
    /\ ~crashed
    /\ handlers' = [handlers EXCEPT ![jobType] = handler]
    /\ UNCHANGED <<jobs, closed, cancelled, stats, heap, started, pc, cur,
                   delayed, stopPc, crashed, ghost,
                   created, lastPush, tally,
                   defaultQueue, prog, ret, chanCap>>

\* Queue.Start: one goroutine per worker.
Start ==
    /\ ~crashed
    /\ ~started
    /\ started' = TRUE
    /\ pc' = [w \in WorkerIds |-> "idle"]
    /\ UNCHANGED <<jobs, closed, cancelled, handlers, stats, heap, cur,
                   delayed, stopPc, crashed, ghost,
                   created, lastPush, tally,
                   defaultQueue, prog, ret, chanCap>>

\* What Push returns for each outcome of its select.
PushResult(r) ==
    CASE r = "sent" -> "nil"
      [] r = "full" -> "queue is full"
      [] OTHER -> "panic"

\* The body of Queue.Push.  `recoverable` tells whether a frame above the
\* call may recover a panic (a direct caller may; the goroutine of
\* PushDelay does not).  A Job that was not sent is garbage at once.
PushBody(jobType, maxRetry, recoverable) ==
    LET job == NewJob(jobType, maxRetry)
        id == created + 1
        r == TrySend(closed, Len(jobs))
    IN  /\ created' = created + 1
        /\ lastPush' = PushResult(r)
        /\ IF r = "sent"
           THEN /\ heap' = [heap EXCEPT ![id] = job]
                /\ ghost' = [ghost EXCEPT ![id] = NewGhost(closed)]
                /\ jobs' = Append(jobs, id)
                /\ tally' = [tally EXCEPT !.A = @ + 1]
           ELSE UNCHANGED <<heap, ghost, jobs, tally>>
        /\ crashed' \in IF r = "panic"
                         THEN (IF recoverable THEN BOOLEAN ELSE {TRUE})
                         ELSE {FALSE}

\* Queue.Push called by a producer.
Push(jobType, maxRetry) ==
    /\ ~crashed
    /\ created + Len(delayed) < MaxJobs
    /\ PushBody(jobType, maxRetry, TRUE)
    /\ UNCHANGED <<closed, cancelled, handlers, stats, started, pc, cur,
                   delayed, stopPc,
                   defaultQueue, prog, ret, chanCap>>

\* Queue.PushDelay: spawns the goroutine and returns nil.
PushDelay(jobType, maxRetry) ==
    /\ ~crashed
    /\ created + Len(delayed) < MaxJobs
    /\ delayed' = Append(delayed, [type |-> jobType, maxRetry |-> maxRetry])
    /\ UNCHANGED <<jobs, closed, cancelled, handlers, stats, heap, started,
                   pc, cur, stopPc, crashed, ghost,
                   created, lastPush, tally,
                   defaultQueue, prog, ret, chanCap>>

\* The goroutine of PushDelay after its sleep: q.Push(...), result dropped.
DelayedPush(i) ==
    /\ ~crashed
    /\ i \in 1..Len(delayed)
    /\ PushBody(delayed[i].type, delayed[i].maxRetry, FALSE)
    /\ delayed' = [k \in 1..(Len(delayed) - 1) |->
                      IF k < i THEN delayed[k] ELSE delayed[k + 1]]
    /\ UNCHANGED <<closed, cancelled, handlers, stats, started, pc, cur,
                   stopPc,
                   defaultQueue, prog, ret, chanCap>>

\* Queue.Stop, first statement: q.cancel().  Stop is called at most once.
StopCancel ==
    /\ ~crashed
    /\ stopPc = "idle"
    /\ cancelled' = TRUE
    /\ stopPc' = "closing"
    /\ UNCHANGED <<jobs, closed, handlers, stats, heap, started, pc, cur,
                   delayed, crashed, ghost,
                   created, lastPush, tally,
                   defaultQueue, prog, ret, chanCap>>

\* Queue.Stop, second statement: close(q.jobs), after which Stop returns.
StopClose ==
    /\ ~crashed
    /\ stopPc = "closing"
    /\ closed' = TRUE
    /\ stopPc' = "returned"
    /\ UNCHANGED <<jobs, cancelled, handlers, stats, heap, started, pc, cur,
                   delayed, crashed, ghost,
                   created, lastPush, tally,
                   defaultQueue, prog, ret, chanCap>>

\* Queue.worker, select case job := <-q.jobs with a buffered Job.  The
\* case is ready whenever the buffer is non-empty, closed or not, and Go
\* picks among the ready cases at random.
WorkerReceive(w) ==
    /\ ~crashed
    /\ pc[w] = "idle"
    /\ FirstWaiting(w)
    /\ jobs # <<>>
    /\ cur' = [cur EXCEPT ![w] = Received(jobs)]
    /\ jobs' = Dequeue(jobs)
    /\ pc' = [pc EXCEPT ![w] = "enter"]
    /\ ghost' = [ghost EXCEPT ![Received(jobs)].deqClosed = @ \/ closed]
    /\ UNCHANGED <<closed, cancelled, handlers, stats, heap, started,
                   delayed, stopPc, crashed,
                   created, lastPush, tally,
                   defaultQueue, prog, ret, chanCap>>

\* Queue.worker, the same case on a closed and drained channel: the receive
\* yields nil and the worker returns.
WorkerReceiveNil(w) ==
    /\ ~crashed
    /\ pc[w] = "idle"
    /\ FirstWaiting(w)
    /\ closed
    /\ jobs = <<>>
    /\ pc' = [pc EXCEPT ![w] = "stopped"]
    /\ UNCHANGED <<jobs, closed, cancelled, handlers, stats, heap, started,
                   cur, delayed, stopPc, crashed, ghost,
                   created, lastPush, tally,
                   defaultQueue, prog, ret, chanCap>>

\* Queue.worker, select case <-q.ctx.Done().
WorkerCtxDone(w) ==
    /\ ~crashed
    /\ pc[w] = "idle"
    /\ FirstWaiting(w)
    /\ cancelled
    /\ pc' = [pc EXCEPT ![w] = "stopped"]
    /\ UNCHANGED <<jobs, closed, cancelled, handlers, stats, heap, started,
                   cur, delayed, stopPc, crashed, ghost,
                   created, lastPush, tally,
                   defaultQueue, prog, ret, chanCap>>

\* processJob, entry: q.stats.Active++ under q.mu.
ProcessJobEnter(w) ==
    /\ ~crashed
    /\ pc[w] = "enter"
    /\ stats' = ActiveInc(stats)
    /\ pc' = [pc EXCEPT ![w] = "lookup"]
    /\ UNCHANGED <<jobs, closed, cancelled, handlers, heap, started, cur,
                   delayed, stopPc, crashed, ghost,
                   created, lastPush, tally,
                   defaultQueue, prog, ret, chanCap>>

\* processJob, lines 565-576 and the call of line 583: the Job becomes
\* processing, Attempts++, the handler is read under q.mu.RLock; without a
\* handler the Job is marked failed, with one the handler is invoked.
ProcessJobLookup(w) ==
    LET j == cur[w]
        handler == Dispatch(handlers, heap[j].type)
        exists == handler # NoHandler
    IN  /\ ~crashed
        /\ pc[w] = "lookup"
        /\ IF exists
           THEN /\ heap' = [heap EXCEPT ![j].status = StatusProcessing,
                                        ![j].updatedAt = Now(@),
                                        ![j].attempts = @ + 1]
                /\ ghost' = [ghost EXCEPT ![j].calls = @ + 1,
                                          ![j].by = handler]
                /\ pc' = [pc EXCEPT ![w] = "handler"]
           ELSE /\ heap' = [heap EXCEPT ![j].status = StatusFailed,
                                        ![j].updatedAt = Now(@),
                                        ![j].attempts = @ + 1,
                                        ![j].error = "no handler registered"]
                /\ ghost' = [ghost EXCEPT ![j].nh = TRUE]
                /\ pc' = [pc EXCEPT ![w] = "nohandler"]
        /\ UNCHANGED <<jobs, closed, cancelled, handlers, stats, started,
                       cur, delayed, stopPc, crashed,
                   created, lastPush, tally,
                   defaultQueue, prog, ret, chanCap>>

\* processJob, lines 577-580: q.stats.Failed++ for the missing handler.
ProcessJobNoHandler(w) ==
    /\ ~crashed
    /\ pc[w] = "nohandler"
    /\ stats' = NoHandlerStats(stats)
    /\ ghost' = [ghost EXCEPT ![cur[w]].cF = @ + 1]
    /\ tally' = [tally EXCEPT !.F = @ + 1]
    /\ pc' = [pc EXCEPT ![w] = "return"]
    /\ UNCHANGED <<jobs, closed, cancelled, handlers, heap, started, cur,
                   delayed, stopPc, crashed,
                   created, lastPush,
                   defaultQueue, prog, ret, chanCap>>

\* processJob, lines 583-590, 607-609, 614-617: the handler returns nil or
\* an error.  After an error with attempts left the worker enters the
\* backoff sleep of line 593.
HandlerReturn(w, outcome) ==
    LET j == cur[w]
        job == heap[j]
    IN  /\ ~crashed
        /\ pc[w] = "handler"
        /\ ghost' = [ghost EXCEPT
                       ![j].first = IF @ = "none" THEN outcome ELSE @,
                       ![j].oks = IF outcome = "ok" THEN @ + 1 ELSE @,
                       ![j].delay =
                           IF /\ outcome = "err"
                              /\ ShouldRetry(job.attempts, job.maxRetry)
                           THEN BackoffSeconds(job.attempts) ELSE @]
        /\ IF outcome = "ok"
           THEN /\ heap' = [heap EXCEPT ![j].status = StatusCompleted,
                                        ![j].updatedAt = Now(@)]
                /\ pc' = [pc EXCEPT ![w] = "completed"]
           ELSE IF ShouldRetry(job.attempts, job.maxRetry)
                THEN /\ heap' = [heap EXCEPT ![j].status = StatusRetrying,
                                             ![j].error =
                                                 ErrorAfterFailure(@, ErrMsg(job.attempts))]
                     /\ pc' = [pc EXCEPT ![w] = "sleep"]
                ELSE /\ heap' = [heap EXCEPT ![j].status = StatusFailed,
                                             ![j].error =
                                                 ErrorAfterFailure(@, ErrMsg(job.attempts))]
                     /\ pc' = [pc EXCEPT ![w] = "failed"]
        /\ UNCHANGED <<jobs, closed, cancelled, handlers, stats, started,
                       cur, delayed, stopPc, crashed,
                   created, lastPush, tally,
                   defaultQueue, prog, ret, chanCap>>

\* A panic unwinds processJob: the deferred q.stats.Active-- runs, and
\* since neither processJob nor worker recovers, the program ends.
PanicUnwind(w) ==
    /\ stats' = ActiveDec(stats)
    /\ pc' = [pc EXCEPT ![w] = "dead"]
    /\ crashed' = TRUE

\* processJob, line 583: the handler panics.
HandlerPanic(w) ==
    /\ ~crashed
    /\ pc[w] = "handler"
    /\ ghost' = [ghost EXCEPT
                   ![cur[w]].first = IF @ = "none" THEN "panic" ELSE @]
    /\ PanicUnwind(w)
    /\ UNCHANGED <<jobs, closed, cancelled, handlers, heap, started, cur,
                   delayed, stopPc,
                   created, lastPush, tally,
                   defaultQueue, prog, ret, chanCap>>

\* processJob, lines 593-602: the backoff sleep ends and the Job is
\* resubmitted with a non-blocking send; the send panics on a closed
\* channel.
ProcessJobRequeue(w) ==
    LET j == cur[w]
        r == TrySend(closed, Len(jobs))
    IN  /\ ~crashed
        /\ pc[w] = "sleep"
        /\ CASE r = "sent" ->
                  /\ jobs' = Resubmit(jobs, j)
                  /\ pc' = [pc EXCEPT ![w] = "retried"]
                  /\ UNCHANGED <<heap, ghost, stats, crashed>>
             [] r = "full" ->
                  /\ heap' = [heap EXCEPT ![j].status = RequeueFullStatus]
                  /\ ghost' = [ghost EXCEPT ![j].full = TRUE]
                  /\ pc' = [pc EXCEPT ![w] = "failed"]
                  /\ UNCHANGED <<jobs, stats, crashed>>
             [] OTHER ->
                  /\ PanicUnwind(w)
                  /\ UNCHANGED <<jobs, heap, ghost>>
        /\ UNCHANGED <<closed, cancelled, handlers, started, cur, delayed,
                       stopPc,
                   created, lastPush, tally,
                   defaultQueue, prog, ret, chanCap>>

\* processJob, lines 597-599: q.stats.Retried++ after the resubmission.
\* The Job is already back in the channel and may have been taken again.
ProcessJobRetried(w) ==
    /\ ~crashed
    /\ pc[w] = "retried"
    /\ stats' = RetriedInc(stats)
    /\ ghost' = [ghost EXCEPT ![cur[w]].cR = @ + 1]
    /\ tally' = [tally EXCEPT !.R = @ + 1]
    /\ pc' = [pc EXCEPT ![w] = "return"]
    /\ UNCHANGED <<jobs, closed, cancelled, handlers, heap, started, cur,
                   delayed, stopPc, crashed,
                   created, lastPush,
                   defaultQueue, prog, ret, chanCap>>

\* processJob, lines 603-605 and 610-612: q.stats.Failed++.
ProcessJobFailed(w) ==
    /\ ~crashed
    /\ pc[w] = "failed"
    /\ stats' = FailedInc(stats)
    /\ ghost' = [ghost EXCEPT ![cur[w]].cF = @ + 1]
    /\ tally' = [tally EXCEPT !.F = @ + 1]
    /\ pc' = [pc EXCEPT ![w] = "return"]
    /\ UNCHANGED <<jobs, closed, cancelled, handlers, heap, started, cur,
                   delayed, stopPc, crashed,
                   created, lastPush,
                   defaultQueue, prog, ret, chanCap>>

\* processJob, lines 618-620: q.stats.Processed++.
ProcessJobCompleted(w) ==
    /\ ~crashed
    /\ pc[w] = "completed"
    /\ stats' = ProcessedInc(stats)
    /\ ghost' = [ghost EXCEPT ![cur[w]].cP = @ + 1]
    /\ tally' = [tally EXCEPT !.P = @ + 1]
    /\ pc' = [pc EXCEPT ![w] = "return"]
    /\ UNCHANGED <<jobs, closed, cancelled, handlers, heap, started, cur,
                   delayed, stopPc, crashed,
                   created, lastPush,
                   defaultQueue, prog, ret, chanCap>>

\* processJob returns: the deferred q.stats.Active--, then the worker loops.
ProcessJobReturn(w) ==
    /\ ~crashed
    /\ pc[w] = "return"
    /\ stats' = ActiveDec(stats)
    /\ pc' = [pc EXCEPT ![w] = "idle"]
    /\ cur' = [cur EXCEPT ![w] = NilJob]
    /\ IF \/ cur[w] \in Range(jobs)
          \/ \E v \in WorkerIds \ {w} : cur[v] = cur[w]
       THEN UNCHANGED <<heap, ghost>>
       ELSE /\ heap' = [heap EXCEPT ![cur[w]] = NoJob]
            /\ ghost' = [ghost EXCEPT ![cur[w]] = NoGhost]
    /\ UNCHANGED <<jobs, closed, cancelled, handlers, started, delayed,
                   stopPc, crashed,
                   created, lastPush, tally,
                   defaultQueue, prog, ret, chanCap>>

Next ==
    \/ \E t \in JobTypes, h \in HandlerIds : RegisterHandler(t, h)
    \/ Start
    \/ \E t \in JobTypes, m \in RetryArgs : Push(t, m)
    \/ \E t \in JobTypes, m \in RetryArgs : PushDelay(t, m)
    \/ \E i \in 1..MaxJobs : DelayedPush(i)
    \/ StopCancel
    \/ StopClose
    \/ \E w \in WorkerIds : WorkerReceive(w)
    \/ \E w \in WorkerIds : WorkerReceiveNil(w)
    \/ \E w \in WorkerIds : WorkerCtxDone(w)
    \/ \E w \in WorkerIds : ProcessJobEnter(w)
    \/ \E w \in WorkerIds : ProcessJobLookup(w)
    \/ \E w \in WorkerIds : ProcessJobNoHandler(w)
    \/ \E w \in WorkerIds, o \in {"ok", "err"} : HandlerReturn(w, o)
    \/ \E w \in WorkerIds : HandlerPanic(w)
    \/ \E w \in WorkerIds : ProcessJobRequeue(w)
    \/ \E w \in WorkerIds : ProcessJobRetried(w)
    \/ \E w \in WorkerIds : ProcessJobFailed(w)
    \/ \E w \in WorkerIds : ProcessJobCompleted(w)
    \/ \E w \in WorkerIds : ProcessJobReturn(w)

Spec == Init /\ [][Next]_vars

\* ------------------------------------------------------------ backoff runs
\* Runs in which Jobs are pushed with a maxRetry that allows several
\* resubmissions.  Stop is not called and no handler panics.
NextBackoff ==
    \/ \E t \in JobTypes, h \in HandlerIds : RegisterHandler(t, h)
    \/ Start
    \/ \E t \in JobTypes, m \in BackoffRetryArgs : Push(t, m)
    \/ \E w \in WorkerIds : WorkerReceive(w)
    \/ \E w \in WorkerIds : ProcessJobEnter(w)
    \/ \E w \in WorkerIds : ProcessJobLookup(w)
    \/ \E w \in WorkerIds : ProcessJobNoHandler(w)
    \/ \E w \in WorkerIds, o \in {"ok", "err"} : HandlerReturn(w, o)
    \/ \E w \in WorkerIds : ProcessJobRequeue(w)
    \/ \E w \in WorkerIds : ProcessJobRetried(w)
    \/ \E w \in WorkerIds : ProcessJobFailed(w)
    \/ \E w \in WorkerIds : ProcessJobCompleted(w)
    \/ \E w \in WorkerIds : ProcessJobReturn(w)

SpecBackoff == Init /\ [][NextBackoff]_vars

\* ---------------------------------------------------------------- GetStats
StatFields == {"Processed", "Failed", "Retried", "Active"}

\* Faulty variant of StatsCopy: the caller is handed q.stats itself.
StatsCopy_Alias(s) == [ref |-> "live", val |-> s]

\* return &QueueStats{Processed: q.stats.Processed, ...}: a new struct that
\* holds the four values read under q.mu.RLock.
StatsCopy(s) == [ref |-> "copy", val |-> s]

\* Queue.GetStats: the caller now holds the returned pointer.
GetStats ==
    /\ ~crashed
    /\ ret' = StatsCopy(stats)
    /\ UNCHANGED <<jobs, closed, cancelled, handlers, stats, heap, created,
                   lastPush, started, pc, cur, delayed, stopPc, crashed,
                   ghost, tally, defaultQueue, prog, chanCap>>

\* The caller of GetStats writes a field of the struct it was handed, once:
\* a write through a pointer to q.stats would change the live counter.
MutateResult(f) ==
    /\ ~crashed
    /\ ret.ref # "none"
    /\ ret.val = stats
    /\ IF ret.ref = "live"
       THEN /\ stats' = [stats EXCEPT ![f] = -1]
            /\ UNCHANGED ret
       ELSE /\ ret' = [ret EXCEPT !.val[f] = -1]
            /\ UNCHANGED stats
    /\ UNCHANGED <<jobs, closed, cancelled, handlers, heap, created,
                   lastPush, started, pc, cur, delayed, stopPc, crashed,
                   ghost, tally, defaultQueue, prog, chanCap>>

\* The caller drops the struct.
ReleaseResult ==
    /\ ret # NoRet
    /\ ret' = NoRet
    /\ UNCHANGED <<jobs, closed, cancelled, handlers, stats, heap, created,
                   lastPush, started, pc, cur, delayed, stopPc, crashed,
                   ghost, tally, defaultQueue, prog, chanCap>>

\* Runs of a queue whose counters are read, and the copies written, at any
\* point while jobs are pushed and processed.  Stop is not called and no
\* handler panics.  What a caller does with the struct it holds touches
\* nothing a worker or a producer reads, so the caller's steps are taken
\* together (GetStats, its write, a second GetStats, the release) and the
\* others step while no result is held.
NextStats ==
    \/ GetStats
    \/ \E f \in StatFields : MutateResult(f)
    \/ ReleaseResult
    \/ ret = NoRet /\ \E t \in JobTypes, h \in HandlerIds : RegisterHandler(t, h)
    \/ ret = NoRet /\ Start
    \/ ret = NoRet /\ \E t \in JobTypes, m \in RetryArgs : Push(t, m)
    \/ ret = NoRet /\ \E w \in WorkerIds : WorkerReceive(w)
    \/ ret = NoRet /\ \E w \in WorkerIds : ProcessJobEnter(w)
    \/ ret = NoRet /\ \E w \in WorkerIds : ProcessJobLookup(w)
    \/ ret = NoRet /\ \E w \in WorkerIds : ProcessJobNoHandler(w)
    \/ ret = NoRet /\ \E w \in WorkerIds, o \in {"ok", "err"} : HandlerReturn(w, o)
    \/ ret = NoRet /\ \E w \in WorkerIds : ProcessJobRequeue(w)
    \/ ret = NoRet /\ \E w \in WorkerIds : ProcessJobRetried(w)
    \/ ret = NoRet /\ \E w \in WorkerIds : ProcessJobFailed(w)
    \/ ret = NoRet /\ \E w \in WorkerIds : ProcessJobCompleted(w)
    \/ ret = NoRet /\ \E w \in WorkerIds : ProcessJobReturn(w)

SpecStats == Init /\ [][NextStats]_vars

\* ------------------------------------------------------ the default queue
\* Faulty variant of PkgRegisterHandler: DefaultQueue is not tested.
PkgRegisterHandler_NoNilTest(hs, dq, jobType, handler) ==
    [hs EXCEPT ![jobType] = handler]

\* The package-level RegisterHandler: a call made while DefaultQueue is nil
\* registers nothing.
PkgRegisterHandler(hs, dq, jobType, handler) ==
    IF dq # NilQueue THEN [hs EXCEPT ![jobType] = handler] ELSE hs

\* The package's init(): one RegisterHandler call per built-in type.  Go
\* runs it while the program loads, before main and so before any call of
\* Init.
PackageInit ==
    /\ prog = "load"
    /\ prog' = "main"
    /\ handlers' = [t \in AllTypes |->
                       IF t \in BuiltinTypes
                       THEN PkgRegisterHandler(handlers, defaultQueue, t,
                                               BuiltinHandler(t))[t]
                       ELSE handlers[t]]
    /\ UNCHANGED <<jobs, closed, cancelled, stats, heap, created, lastPush,
                   started, pc, cur, delayed, stopPc, crashed, ghost, tally,
                   defaultQueue, ret, chanCap>>

\* Init(workers), first statement: DefaultQueue = NewQueue("default",
\* workers).  Init is called once.
InitNewQueue ==
    /\ prog = "main"
    /\ defaultQueue = NilQueue
    /\ defaultQueue' = "default"
    /\ jobs' = <<>>
    /\ closed' = FALSE
    /\ cancelled' = FALSE
    /\ handlers' = [t \in AllTypes |-> NoHandler]
    /\ stats' = [Processed |-> 0, Failed |-> 0, Retried |-> 0, Active |-> 0]
    /\ UNCHANGED <<heap, created, lastPush, started, pc, cur, delayed,
                   stopPc, crashed, ghost, tally, prog, ret, chanCap>>

\* Init(workers), second statement: DefaultQueue.Start().
InitStart ==
    /\ defaultQueue # NilQueue
    /\ Start

\* SendEmailAsync(to, subject, body) with non-empty to and subject:
\* Push("send_email", payload), that is PushWithRetry with maxRetry 3,
\* which refuses while DefaultQueue is nil.
SendEmailAsync ==
    /\ prog = "main"
    /\ ~crashed
    /\ IF defaultQueue = NilQueue
       THEN /\ lastPush' = "queue not initialized"
            /\ UNCHANGED <<jobs, heap, ghost, created, crashed, tally>>
       ELSE /\ created + Len(delayed) < MaxJobs
            /\ PushBody("send_email", DefaultMaxRetry, TRUE)
    /\ UNCHANGED <<closed, cancelled, handlers, stats, started, pc, cur,
                   delayed, stopPc, defaultQueue, prog, ret, chanCap>>

\* The package-level PushDelay for the type send_email: it refuses while
\* DefaultQueue is nil and schedules the Push with maxRetry 3 otherwise.
PkgPushDelay ==
    /\ prog = "main"
    /\ IF defaultQueue = NilQueue
       THEN /\ ~crashed
            /\ lastPush' = "queue not initialized"
            /\ UNCHANGED <<jobs, closed, cancelled, handlers, stats, heap,
                           started, pc, cur, delayed, stopPc, crashed, ghost,
                           created, tally, defaultQueue, prog, ret, chanCap>>
       ELSE PushDelay("send_email", DefaultMaxRetry)

\* The package-level RegisterHandler called by the program for a type of
\* its own, before or after Init.
PkgRegister(jobType, handler) ==
    /\ prog = "main"
    /\ ~crashed
    /\ handlers' = PkgRegisterHandler(handlers, defaultQueue, jobType, handler)
    /\ UNCHANGED <<jobs, closed, cancelled, stats, heap, started, pc, cur,
                   delayed, stopPc, crashed, ghost, created, lastPush, tally,
                   defaultQueue, prog, ret, chanCap>>

\* &QueueStats{}: every counter zero.
ZeroStats == [Processed |-> 0, Failed |-> 0, Retried |-> 0, Active |-> 0]

\* The package-level GetStats: a zero struct while DefaultQueue is nil,
\* DefaultQueue.GetStats() otherwise.
PkgGetStats ==
    /\ prog = "main"
    /\ IF defaultQueue = NilQueue
       THEN /\ ~crashed
            /\ ret' = StatsCopy(ZeroStats)
            /\ UNCHANGED <<jobs, closed, cancelled, handlers, stats, heap,
                           created, lastPush, started, pc, cur, delayed,
                           stopPc, crashed, ghost, tally, defaultQueue, prog,
                           chanCap>>
       ELSE GetStats

\* DefaultQueue.Stop(), first and second statement.
DefaultStopCancel ==
    /\ defaultQueue # NilQueue
    /\ StopCancel

DefaultStopClose ==
    /\ defaultQueue # NilQueue
    /\ StopClose

\* The program from its start: the package is loaded, then main calls Init,
\* the helpers, the wrappers and Stop.  The program registers handlers for
\* its own types and pushes Jobs of the built-in type send_email, so no
\* handler is ever invoked in these runs and the steps after a handler call
\* do not occur.
InitDefault ==
    /\ QueueInit
    /\ chanCap = Capacity
    /\ prog = "load"
    /\ defaultQueue = NilQueue

NextDefault ==
    \/ PackageInit
    \/ InitNewQueue
    \/ InitStart
    \/ SendEmailAsync
    \/ PkgPushDelay
    \/ \E t \in JobTypes, h \in HandlerIds : PkgRegister(t, h)
    \/ PkgGetStats
    \/ ReleaseResult
    \/ \E i \in 1..MaxJobs : DelayedPush(i)
    \/ DefaultStopCancel
    \/ DefaultStopClose
    \/ \E w \in WorkerIds : WorkerReceive(w)
    \/ \E w \in WorkerIds : WorkerReceiveNil(w)
    \/ \E w \in WorkerIds : WorkerCtxDone(w)
    \/ \E w \in WorkerIds : ProcessJobEnter(w)
    \/ \E w \in WorkerIds : ProcessJobLookup(w)
    \/ \E w \in WorkerIds : ProcessJobNoHandler(w)
    \/ \E w \in WorkerIds : ProcessJobReturn(w)

SpecDefault == InitDefault /\ [][NextDefault]_vars

\* ------------------------------------------------- late registration runs
\* Runs in which every Job is pushed while its type has no handler and
\* every handler is registered after Start, a second registration
\* replacing the first.  Stop is not called and no handler panics.
PushEarly(jobType, maxRetry) ==
    /\ handlers[jobType] = NoHandler
    /\ Push(jobType, maxRetry)

RegisterLate(jobType, handler) ==
    /\ started
    /\ RegisterHandler(jobType, handler)

NextReg ==
    \/ Start
    \/ \E t \in JobTypes, m \in RetryArgs : PushEarly(t, m)
    \/ \E t \in JobTypes, h \in AllHandlerIds : RegisterLate(t, h)
    \/ \E w \in WorkerIds : WorkerReceive(w)
    \/ \E w \in WorkerIds : ProcessJobEnter(w)
    \/ \E w \in WorkerIds : ProcessJobLookup(w)
    \/ \E w \in WorkerIds : ProcessJobNoHandler(w)
    \/ \E w \in WorkerIds, o \in {"ok", "err"} : HandlerReturn(w, o)
    \/ \E w \in WorkerIds : ProcessJobRequeue(w)
    \/ \E w \in WorkerIds : ProcessJobRetried(w)
    \/ \E w \in WorkerIds : ProcessJobFailed(w)
    \/ \E w \in WorkerIds : ProcessJobCompleted(w)
    \/ \E w \in WorkerIds : ProcessJobReturn(w)

SpecReg == Init /\ [][NextReg]_vars

\* ------------------------------------------------------- channel order runs
\* Runs of a queue whose channel has room for one Job more, so that Jobs
\* wait behind one another in the buffer and a resubmitted Job finds others
\* buffered.  Stop is not called and no handler panics.
InitFifo ==
    /\ QueueInit
    /\ chanCap = Capacity + 1
    /\ prog = "main"
    /\ defaultQueue = NilQueue

NextFifo ==
    \/ \E t \in JobTypes, h \in HandlerIds : RegisterHandler(t, h)
    \/ Start
    \/ \E t \in JobTypes, m \in RetryArgs : Push(t, m)
    \/ \E w \in WorkerIds : WorkerReceive(w)
    \/ \E w \in WorkerIds : ProcessJobEnter(w)
    \/ \E w \in WorkerIds : ProcessJobLookup(w)
    \/ \E w \in WorkerIds : ProcessJobNoHandler(w)
    \/ \E w \in WorkerIds, o \in {"ok", "err"} : HandlerReturn(w, o)
    \/ \E w \in WorkerIds : ProcessJobRequeue(w)
    \/ \E w \in WorkerIds : ProcessJobRetried(w)
    \/ \E w \in WorkerIds : ProcessJobFailed(w)
    \/ \E w \in WorkerIds : ProcessJobCompleted(w)
    \/ \E w \in WorkerIds : ProcessJobReturn(w)

SpecFifo == InitFifo /\ [][NextFifo]_vars

\* ------------------------------------------------------------ fair runs
\* Any step of worker w: its receive, or the next statement of processJob.
\* The handler call is among them and ends by returning.
WorkerStep(w) ==
    \/ WorkerReceive(w)
    \/ ProcessJobEnter(w)
    \/ ProcessJobLookup(w)
    \/ ProcessJobNoHandler(w)
    \/ \E o \in {"ok", "err"} : HandlerReturn(w, o)
    \/ ProcessJobRequeue(w)
    \/ ProcessJobRetried(w)
    \/ ProcessJobFailed(w)
    \/ ProcessJobCompleted(w)
    \/ ProcessJobReturn(w)

\* Runs in which Stop is not called and no handler panics, with producers
\* and registrations at any time.
NextLive ==
    \/ \E t \in JobTypes, h \in HandlerIds : RegisterHandler(t, h)
    \/ Start
    \/ \E t \in JobTypes, m \in RetryArgs : Push(t, m)
    \/ \E w \in WorkerIds : WorkerStep(w)

\* The Go scheduler runs every goroutine that can take a step, a handler
\* returns and a sleep ends: a worker that can step does so eventually.
\* Nothing obliges the program to call Start, Push or RegisterHandler.
Fairness == \A w \in WorkerIds : WF_vars(WorkerStep(w))

SpecLive == Init /\ [][NextLive]_vars /\ Fairness

\* Any step of worker w in a run with Stop: those above and the two ways
\* out of its loop.
WorkerStepOrExit(w) ==
    \/ WorkerStep(w)
    \/ WorkerReceiveNil(w)
    \/ WorkerCtxDone(w)

\* Runs with Stop and PushDelay in which no handler panics.
NextStopLive ==
    \/ \E t \in JobTypes, h \in HandlerIds : RegisterHandler(t, h)
    \/ Start
    \/ \E t \in JobTypes, m \in RetryArgs : Push(t, m)
    \/ \E t \in JobTypes, m \in RetryArgs : PushDelay(t, m)
    \/ \E i \in 1..MaxJobs : DelayedPush(i)
    \/ StopCancel
    \/ StopClose
    \/ \E w \in WorkerIds : WorkerStepOrExit(w)

\* As above for the workers; a call of Stop runs to its end.
FairnessStop ==
    /\ \A w \in WorkerIds : WF_vars(WorkerStepOrExit(w))
    /\ WF_vars(StopClose)

SpecStopLive == Init /\ [][NextStopLive]_vars /\ FairnessStop

\* ------------------------------------------------------------------ claims
\* The positions between the entry increment of processJob and its
\* deferred decrement.
InProcessJob == {"lookup", "handler", "nohandler", "sleep", "retried",
                 "failed", "completed", "return"}

\* The workers that reference Job j.
Holders(j) == {w \in WorkerIds : cur[w] = j}

\* Job j has left the channel for good and every worker that referenced it
\* has finished its accounting.
Final(j) ==
    /\ j \in Live
    /\ j \notin Range(jobs)
    /\ \A w \in Holders(j) : pc[w] = "return"

\* A step that is a call of Push (direct or delayed).
PushStep == created' = created + 1

Max(a, b) == IF a >= b THEN a ELSE b

\* C1: a Push on a queue that is neither full nor stopped returns nil and
\* enqueues exactly one new Job with attempts = 0 and status pending, so
\* that Size() grows by one; Size() shrinks only when a worker dequeues.
C1_PushAccepted ==
    [][ /\ (PushStep /\ ~closed /\ Size < Capacity) =>
            /\ lastPush' = "nil"
            /\ jobs' = Append(jobs, created')
            /\ Len(jobs') = Size + 1
            /\ heap'[created'].attempts = 0
            /\ heap'[created'].status = StatusPending
            /\ \A j \in Slots \ {created'} : heap'[j] = heap[j]
        /\ Len(jobs') < Size =>
            \E w \in WorkerIds :
                /\ pc[w] = "idle" /\ pc'[w] = "enter"
                /\ cur'[w] = Head(jobs) /\ jobs' = Tail(jobs)
      ]_vars

\* C1 witness: the last Push returned nil and its Job is still buffered,
\* untouched.
C1_Witness ==
    /\ lastPush = "nil"
    /\ created \in Range(jobs)
    /\ heap[created].attempts = 0
    /\ heap[created].status = StatusPending

\* C2: a Push on a channel that holds Capacity Jobs returns the "queue is
\* full" error and enqueues nothing; Size() is always within 0..Capacity.
C2_FullPushRejected ==
    [][ /\ (PushStep /\ Size = Capacity) =>
            (lastPush' = "queue is full" /\ jobs' = jobs /\ ~crashed')
        /\ Len(jobs') \in 0..Capacity
      ]_vars

\* The state of a Job whose handler returned nil on its first invocation:
\* completed, one attempt, held by one worker, counted once it is done.
C3_JobState ==
    \A j \in Live :
        ghost[j].first = "ok" =>
            /\ heap[j].status = StatusCompleted
            /\ heap[j].attempts = 1
            /\ ghost[j].calls = 1
            /\ ghost[j].cF = 0 /\ ghost[j].cR = 0
            /\ ghost[j].cP = IF Final(j) THEN 1 ELSE 0
            /\ j \notin Range(jobs)
            /\ Cardinality(Holders(j)) = 1

\* C3: a Job whose handler returns nil on its first invocation ends
\* completed with attempts = 1, adds exactly 1 to processed and nothing to
\* failed and retried.
C3_FirstSuccess ==
    /\ C3_JobState
    /\ stats.Processed = tally.P

\* C3 witness: a Job that succeeded at once has been counted.
C3_Witness ==
    \E j \in Live : ghost[j].first = "ok" /\ ghost[j].cP = 1 /\ Final(j)

\* The case of C4: every invocation of the Job's handler returned an
\* error, every requeue found room, Stop was never called, and the Job is
\* done.
C4_Case(j) ==
    /\ Final(j)
    /\ ghost[j].calls >= 1
    /\ ghost[j].oks = 0
    /\ ~ghost[j].full
    /\ ~cancelled

\* C4 as stated: such a Job pushed with maxRetry = N has had exactly N
\* handler invocations, added N - 1 to retried and 1 to failed, and is
\* failed, for every N that Push accepts.
C4_ExactlyNAttempts ==
    \A j \in Live :
        C4_Case(j) =>
            /\ ghost[j].calls = heap[j].maxRetry
            /\ ghost[j].cR = heap[j].maxRetry - 1
            /\ ghost[j].cF = 1
            /\ heap[j].status = StatusFailed

\* C4 amended: the number of invocations is N for N >= 1 and 1 for
\* N <= 0; retried grows by one less than that, failed by exactly 1.
C4_AttemptsAtLeastOne ==
    \A j \in Live :
        C4_Case(j) =>
            /\ ghost[j].calls = Max(heap[j].maxRetry, 1)
            /\ heap[j].attempts = Max(heap[j].maxRetry, 1)
            /\ ghost[j].cR = Max(heap[j].maxRetry, 1) - 1
            /\ ghost[j].cF = 1
            /\ ghost[j].cP = 0
            /\ heap[j].status = StatusFailed

\* C4 witness: a Job with maxRetry = 2 has failed twice and is done.
C4_Witness ==
    \E j \in Live :
        C4_Case(j) /\ heap[j].maxRetry = 2 /\ ghost[j].calls = 2
                   /\ ghost[j].cR = 1

\* The state of a Job that processJob found no handler for: failed with an
\* error, out of the channel, counted once it is done.
C5_JobState ==
    \A j \in Live :
        ghost[j].nh =>
            /\ heap[j].status = StatusFailed
            /\ heap[j].error # ""
            /\ j \notin Range(jobs)
            /\ \A w \in Holders(j) : pc[w] \in {"nohandler", "return"}
            /\ ghost[j].cF = IF Final(j) THEN 1 ELSE 0

\* C5: a Job dequeued while its type has no handler becomes failed with a
\* non-empty error, adds exactly 1 to failed, leaves retried alone and is
\* never put back in the channel, whatever its maxRetry.
C5_NoHandlerFails ==
    /\ C5_JobState
    /\ stats.Failed = tally.F
    /\ stats.Retried = tally.R
    /\ \A w \in WorkerIds :
         pc[w] = "handler" => handlers[heap[cur[w]].type] # NoHandler

\* C5 witness: a Job with retries allowed has failed for want of a handler
\* and has been counted.
C5_Witness ==
    \E j \in Live :
        ghost[j].nh /\ Final(j) /\ heap[j].maxRetry = 2 /\ ghost[j].cF = 1

\* C6: 0 <= active <= N for a queue started once with N workers.
C6_ActiveBounded ==
    stats.Active >= 0 /\ stats.Active <= Workers

\* C6 witness: every worker is inside processJob at once.
C6_Witness ==
    started /\ stats.Active = Workers

\* C7 as stated, in its stated case: with no worker executing a handler,
\* each one waiting for a job or in a backoff sleep, active is 0.
C7_ActiveZeroOutsideHandlers ==
    (\A w \in WorkerIds : pc[w] \in {"unstarted", "idle", "stopped", "sleep"})
        => stats.Active = 0

\* C7 amended: active is the number of workers inside processJob, from its
\* entry increment to its deferred decrement, the backoff sleep included.
C7_ActiveCountsProcessJob ==
    stats.Active = Cardinality({w \in WorkerIds : pc[w] \in InProcessJob})

\* C7 witness: the only busy worker is in its backoff sleep and is counted.
C7_Witness ==
    /\ \E w \in WorkerIds : pc[w] = "sleep"
    /\ \A w \in WorkerIds : pc[w] \in {"idle", "sleep"}
    /\ stats.Active = 1

\* C8: every call of Push ends by returning nil or the full-queue error.
C8_PushReturns ==
    lastPush \in {"none", "nil", "queue is full"}

\* C9: once Stop has returned no Push, direct or delayed, adds a Job to the
\* channel, nothing else does, and no Job created after Stop is buffered
\* or held by a worker.
C9_NoAdmissionAfterStop ==
    [][ /\ closed => /\ Len(jobs') <= Size
                     /\ \A j \in Slots : heap[j] = NoJob => heap'[j] = NoJob
                     /\ PushStep => (jobs' = jobs /\ lastPush' # "nil")
        /\ \A j \in Slots : ~ghost'[j].late
      ]_vars

\* C9 witness: a Push called after Stop has ended, the caller survived.
C9_Witness ==
    closed /\ stopPc = "returned" /\ lastPush = "panic" /\ ~crashed

\* C10: after Stop has returned no worker receives a Job that was still
\* buffered.
C10_NoDequeueAfterStop ==
    \A j \in Slots : ~ghost[j].deqClosed

\* C11: a worker that holds a Job it received before Stop closed the
\* channel, and so is inside processJob when Stop ends, leaves processJob
\* by its normal end: the backoff sleep ends in the resubmission or in the
\* full-channel failure, the counters are updated, the deferred decrement
\* runs, and no panic ends the worker.
C11_InFlightRunsToEnd ==
    [][ \A w \in WorkerIds :
          (cancelled /\ cur[w] # NilJob /\ ~ghost[cur[w]].deqClosed) =>
              /\ pc[w] = "sleep" =>
                     pc'[w] \in {"sleep", "retried", "failed"}
              /\ pc[w] \in {"retried", "failed", "completed"} =>
                     pc'[w] \in {pc[w], "return"}
              /\ pc[w] = "return" => pc'[w] \in {"return", "idle"}
      ]_vars

\* C12: a handler's panic never ends a worker: the worker leaves the
\* handler call alive, and the program goes on.
C12_HandlerPanicCaught ==
    [][ \A w \in WorkerIds :
          pc[w] = "handler" => (pc'[w] # "dead" /\ ~crashed')
      ]_vars

\* A step that is a call of PushDelay, and one that is the delayed Push of
\* its goroutine.
PushDelayStep == Len(delayed') = Len(delayed) + 1
DelayedPushStep == Len(delayed') = Len(delayed) - 1

\* C13: PushDelay returns at once and enqueues nothing itself; its Job is
\* pushed only by the delayed Push, and when that Push finds the channel
\* full the Job is dropped silently: the channel, the Jobs and the counters
\* are unchanged and nothing reaches the rest of the program.
C13_DelayedPushDropped ==
    [][ /\ PushDelayStep =>
            /\ jobs' = jobs /\ heap' = heap /\ created' = created
            /\ stats' = stats /\ lastPush' = lastPush /\ ~crashed'
        /\ (DelayedPushStep /\ Size = Capacity) =>
            /\ jobs' = jobs /\ heap' = heap
            /\ stats' = stats /\ ~crashed'
      ]_vars

\* C14: a registration replaces whatever handler the type had and changes
\* nothing else; processJob dispatches a Job to the handler its type has
\* when the Job is looked up, also when that handler was registered after
\* the Job was pushed and after Start, and fails it only if there is none.
C14_LastRegistrationWins ==
    [][ /\ handlers' # handlers =>
            /\ \E t \in JobTypes, h \in AllHandlerIds :
                   handlers' = [handlers EXCEPT ![t] = h]
            /\ UNCHANGED <<jobs, closed, cancelled, stats, heap, created,
                           lastPush, started, pc, cur, delayed, stopPc,
                           crashed, ghost, tally,
                   defaultQueue, prog, ret, chanCap>>
        /\ \A w \in WorkerIds :
             pc[w] = "lookup" =>
                 /\ pc'[w] = "handler" =>
                        /\ handlers[heap[cur[w]].type] # NoHandler
                        /\ ghost'[cur[w]].by = handlers[heap[cur[w]].type]
                 /\ pc'[w] = "nohandler" =>
                        handlers[heap[cur[w]].type] = NoHandler
      ]_vars

\* C14 witness: a Job pushed before any registration runs in the handler
\* registered first, after Start, while a second registration has already
\* replaced that handler in the registry.
C14_Witness ==
    \E w \in WorkerIds :
        /\ pc[w] = "handler"
        /\ ghost[cur[w]].by = "h1"
        /\ handlers[heap[cur[w]].type] = "h2"

\* C16: once Init has made and started the default queue, every built-in
\* type has its built-in handler registered on it, and a Job a convenience
\* wrapper pushed has maxRetry 3 and is not failed for want of a handler.
C16_BuiltinsRegistered ==
    /\ (defaultQueue # NilQueue /\ started) =>
           \A t \in BuiltinTypes : handlers[t] = BuiltinHandler(t)
    /\ \A j \in Slots :
           (heap[j] # NoJob /\ heap[j].type \in BuiltinTypes) =>
               (heap[j].maxRetry = DefaultMaxRetry /\ ~ghost[j].nh)

Added(f) == stats'[f] - stats[f]
CountedIn(c) == {j \in Slots : ghost'[j][c] = ghost[j][c] + 1}

\* The accounting of a Job: it is counted failed at most once, and once it
\* is done after a handler call that returned nil, every earlier call
\* having ended in a resubmission, it has added one to processed, one to
\* retried per resubmission and nothing to failed.
C17_JobState ==
    \A j \in Slots :
        heap[j] # NoJob =>
            /\ ghost[j].cF <= 1
            /\ ghost[j].oks <= 1
            /\ (Final(j) /\ ghost[j].oks = 1) =>
                   /\ heap[j].status = StatusCompleted
                   /\ ghost[j].cP = 1
                   /\ ghost[j].cF = 0
                   /\ ghost[j].cR = ghost[j].calls - 1

\* C17: per-job accounting as above; processed, failed and retried never
\* decrease, and each grows by one exactly in the step that counts a Job
\* there.
C17_StatsAccounting ==
    /\ []C17_JobState
    /\ [][ /\ Added("Processed") = Cardinality(CountedIn("cP"))
           /\ Added("Failed") = Cardinality(CountedIn("cF"))
           /\ Added("Retried") = Cardinality(CountedIn("cR"))
           /\ Added("Processed") >= 0
           /\ Added("Failed") >= 0
           /\ Added("Retried") >= 0
         ]_vars

\* C17 witness: a Job is done that succeeded on its second attempt after
\* one resubmission.
C17_Witness ==
    \E j \in Slots :
        /\ heap[j] # NoJob /\ Final(j)
        /\ ghost[j].oks = 1 /\ ghost[j].calls = 2
        /\ ghost[j].cR = 1 /\ ghost[j].cP = 1 /\ ghost[j].cF = 0

\* C18: a handler error with attempts < maxRetry makes the Job retrying;
\* after the backoff the same Job is offered to the channel without
\* blocking; a send that is taken puts it at the back of the channel, adds
\* exactly 1 to retried and nothing to failed, and the Job is there for
\* any worker to receive.
C18_RetryResubmits ==
    [][ \A w \in WorkerIds :
          LET j == cur[w] IN
          /\ (pc[w] = "handler" /\ pc'[w] = "sleep") =>
                 /\ heap[j].attempts < heap[j].maxRetry
                 /\ heap'[j].status = StatusRetrying
          /\ (pc[w] = "handler" /\ pc'[w] = "failed") =>
                 heap[j].attempts >= heap[j].maxRetry
          /\ (pc[w] = "sleep" /\ pc'[w] = "retried") =>
                 /\ ~closed /\ Size < Capacity
                 /\ jobs' = Append(jobs, j)
                 /\ heap' = heap /\ stats' = stats
          /\ (pc[w] = "retried" /\ pc'[w] # "retried") =>
                 /\ pc'[w] = "return"
                 /\ stats' = [stats EXCEPT !.Retried = @ + 1]
                 /\ j \in Range(jobs) => jobs' = jobs
      ]_vars

\* C18 witness: a Job that was resubmitted after its first failed attempt
\* has been received again.
C18_Witness ==
    \E w \in WorkerIds :
        /\ pc[w] = "enter"
        /\ heap[cur[w]].status = StatusRetrying
        /\ heap[cur[w]].attempts = 1
        /\ ghost[cur[w]].cR = 1

\* C19: a resubmission that finds the channel full marks the Job failed,
\* adds exactly 1 to failed and nothing to retried, and leaves the Job out
\* of the channel for good although attempts < maxRetry.
C19_RequeueFullFails ==
    [][ \A w \in WorkerIds :
          LET j == cur[w] IN
          /\ (pc[w] = "sleep" /\ Size = Capacity) =>
                 /\ pc'[w] \in {"sleep", "failed"}
                 /\ pc'[w] = "failed" =>
                        /\ heap'[j].status = StatusFailed
                        /\ heap[j].attempts < heap[j].maxRetry
                        /\ jobs' = jobs /\ stats' = stats
          /\ (pc[w] = "failed" /\ pc'[w] # "failed") =>
                 /\ pc'[w] = "return"
                 /\ stats' = [stats EXCEPT !.Failed = @ + 1]
                 /\ j \notin Range(jobs')
      ]_vars

Terminal == {StatusCompleted, StatusFailed}

\* A retrying Job is within its budget; a completed or failed Job is not
\* in the channel, and a worker that still references it is past every
\* access to it: about to count it, or about to count the resubmission
\* that handed the Job on, or about to leave processJob.
C21_JobState ==
    \A j \in Slots :
        heap[j] # NoJob =>
            /\ heap[j].status = StatusRetrying =>
                   heap[j].attempts <= heap[j].maxRetry
            /\ heap[j].status \in Terminal =>
                   /\ j \notin Range(jobs)
                   /\ \A w \in Holders(j) :
                          pc[w] \in {"nohandler", "failed", "completed",
                                     "retried", "return"}

\* C21: a retrying Job has attempts <= maxRetry, and completed and failed
\* are absorbing: such a Job is never in the channel again, no worker
\* processes it again, and its record never changes again.
C21_TerminalAbsorbing ==
    /\ []C21_JobState
    /\ [][ \A j \in Slots :
             (heap[j] # NoJob /\ heap[j].status \in Terminal) =>
                 /\ heap'[j] \in {heap[j], NoJob}
                 /\ j \notin Range(jobs')
                 /\ \A w \in WorkerIds : cur'[w] = j => cur[w] = j
         ]_vars

\* C21 witness: a Job that used up its budget of 2 attempts is failed and
\* counted while another Job is buffered and the worker is free again.
C21_Witness ==
    \E j \in Slots :
        /\ heap[j].status = StatusFailed
        /\ heap[j].attempts = 2 /\ heap[j].maxRetry = 2
        /\ ghost[j].cF = 1
        /\ jobs # <<>>
        /\ \E w \in WorkerIds : pc[w] = "idle"

\* C22: a Job's attempts is the number of handler invocations started for
\* it: 0 at creation, one more per invocation, and unchanged by a dequeue
\* that finds no handler.
C22_AttemptsCountInvocations ==
    \A j \in Slots :
        heap[j] # NoJob => heap[j].attempts = ghost[j].calls

\* The number of times Job j is buffered in the channel.
Buffered(j) == Cardinality({i \in 1..Len(jobs) : jobs[i] = j})

\* The workers that own Job j: they hold it and have not handed it on by a
\* resubmission nor finished with it.
Owners(j) == {w \in Holders(j) : pc[w] \notin {"retried", "return"}}

\* A Job is in one place: buffered once, or owned by one worker, or
\* terminal and out of the channel.
C23_OnePlace ==
    \A j \in Slots :
        heap[j] # NoJob =>
            /\ Buffered(j) + Cardinality(Owners(j)) <= 1
            /\ heap[j].status \notin Terminal =>
                   Buffered(j) + Cardinality(Owners(j)) = 1
            /\ heap[j].status \in Terminal => Buffered(j) = 0

\* C23: no two workers own the same Job at any time, a Job being in exactly
\* one place, and a worker that has resubmitted a Job writes none of its
\* fields afterwards.
C23_SingleOwner ==
    /\ []C23_OnePlace
    /\ [][ \A w \in WorkerIds :
             (pc[w] \in {"retried", "return"} /\ pc'[w] # pc[w]) =>
                 heap'[cur[w]] \in {heap[cur[w]], NoJob}
         ]_vars

\* C23 witness: a worker that resubmitted a Job has not yet counted the
\* retry while another worker runs the handler on that Job.
C23_Witness ==
    \E v, w \in WorkerIds :
        /\ v # w /\ cur[v] = cur[w]
        /\ pc[v] = "retried" /\ pc[w] = "handler"

\* C24: Jobs leave the channel in the order they entered it: the channel
\* changes only by a send that puts a Job behind every buffered one or by
\* a receive that takes the oldest, a worker never receives any other Job,
\* and a resubmitted Job goes to the back.
C24_Fifo ==
    [][ /\ jobs' # jobs =>
            \/ \E j \in Slots : jobs' = Append(jobs, j)
            \/ \E w \in WorkerIds :
                   /\ pc[w] = "idle" /\ pc'[w] = "enter"
                   /\ cur'[w] = Head(jobs) /\ jobs' = Tail(jobs)
        /\ \A w \in WorkerIds :
             /\ (cur'[w] # cur[w] /\ cur'[w] # NilJob) =>
                    (jobs # <<>> /\ cur'[w] = Head(jobs) /\ jobs' = Tail(jobs))
             /\ (pc[w] = "sleep" /\ pc'[w] = "retried") =>
                    jobs' = Append(jobs, cur[w])
      ]_vars

\* C24 witness: a Job resubmitted for its retry is buffered behind a Job
\* that was pushed after it and has not been received yet.
C24_Witness ==
    /\ Len(jobs) = 2
    /\ jobs[1] > jobs[2]
    /\ heap[jobs[1]].status = StatusPending
    /\ heap[jobs[2]].status = StatusRetrying

\* C25: with the workers started, Stop never called, handlers that return
\* and fair scheduling, every Job that Push accepted eventually is
\* completed or failed.
C25_EveryJobEnds ==
    \A j \in Slots :
        (started /\ heap[j] # NoJob) ~> (heap[j].status \in Terminal)

\* C25 witness: a Job whose resubmission found the channel full has ended
\* failed and is counted.
C25_Witness ==
    \E j \in Slots :
        /\ heap[j] # NoJob /\ Final(j)
        /\ ghost[j].full /\ ghost[j].cF = 1
        /\ heap[j].status = StatusFailed
        /\ heap[j].attempts < heap[j].maxRetry

\* C26: after Stop every worker eventually exits its loop and does not
\* dequeue again: a worker that waits when Stop has returned exits at that
\* wait, and a busy one after its processJob has ended.
C26_WorkersExitAfterStop ==
    /\ closed ~> (\A w \in WorkerIds : pc[w] \in {"unstarted", "stopped"})
    /\ [][ \A w \in WorkerIds :
             (closed /\ pc[w] = "idle") => pc'[w] \in {"idle", "stopped"}
         ]_vars

\* C27: every change of a Job's status refreshes its updatedAt in the same
\* step.
C27_StatusChangeRefreshes ==
    [][ \A j \in Slots :
          (heap[j] # NoJob /\ heap'[j] # NoJob
              /\ heap'[j].status # heap[j].status) =>
                 heap'[j].updatedAt > heap[j].updatedAt
      ]_vars

\* The handler invocations for Job j that ended in an error so far: all
\* but those that returned nil and the one that is still running or ended
\* in a panic.
FailedCalls(j) ==
    LET running == \E w \in Holders(j) :
                       /\ pc[w] \in {"handler", "dead"}
                       /\ heap[j].status = StatusProcessing
    IN  ghost[j].calls - ghost[j].oks - (IF running THEN 1 ELSE 0)

\* The error field of a Job: empty while no attempt has failed, the
\* missing-handler message after a dequeue without handler, and otherwise
\* the message of the latest invocation that returned an error, also
\* after a later invocation returned nil.
C28_JobState ==
    \A j \in Slots :
        heap[j] # NoJob =>
            /\ (FailedCalls(j) = 0 /\ ~ghost[j].nh) => heap[j].error = ""
            /\ ghost[j].nh => heap[j].error = "no handler registered"
            /\ FailedCalls(j) >= 1 => heap[j].error = ErrMsg(FailedCalls(j))

\* C28: the error field is written only by a failing attempt (handler
\* error or missing handler) and never cleared: it is as above in every
\* state, and it changes only in the step that ends such an attempt, to a
\* non-empty message.
C28_ErrorKept ==
    /\ []C28_JobState
    /\ [][ \A j \in Slots :
             (heap[j] # NoJob /\ heap'[j] # NoJob
                 /\ heap'[j].error # heap[j].error) =>
                    /\ heap'[j].error # ""
                    /\ \E w \in Holders(j) :
                           \/ pc[w] = "handler" /\ pc'[w] \in {"sleep", "failed"}
                           \/ pc[w] = "lookup" /\ pc'[w] = "nohandler"
         ]_vars

\* C28 witness: a Job that failed once and then completed still carries
\* the message of its first attempt.
C28_Witness ==
    \E j \in Slots :
        /\ heap[j].status = StatusCompleted
        /\ heap[j].attempts = 2
        /\ heap[j].error = ErrMsg(1)

\* The workers that hold a Job they have neither counted nor resubmitted.
Uncounted ==
    {w \in WorkerIds : pc[w] \in {"enter", "lookup", "handler", "nohandler",
                                  "sleep", "failed", "completed", "dead"}}

\* C29: while Stop has not been called, the Push calls that returned nil
\* are as many as processed + failed + the Jobs buffered + the Jobs held by
\* a worker and not yet counted or resubmitted; so with the channel empty
\* and every worker waiting, processed + failed is the number of accepted
\* pushes.
C29_Conservation ==
    ~cancelled =>
        /\ tally.A = stats.Processed + stats.Failed + Len(jobs)
                         + Cardinality(Uncounted)
        /\ (jobs = <<>> /\ \A w \in WorkerIds : pc[w] = "idle") =>
               stats.Processed + stats.Failed = tally.A

\* C29 witness: two pushes were accepted, one Job failed and one completed
\* after a retry, the channel is empty and every worker waits.
C29_Witness ==
    /\ ~cancelled /\ tally.A = 2
    /\ jobs = <<>> /\ \A w \in WorkerIds : pc[w] = "idle"
    /\ stats.Processed = 1 /\ stats.Failed = 1 /\ stats.Retried = 1

\* While DefaultQueue is nil nothing has reached a queue: no Job, no
\* delayed Push, no handler, no count, and every push helper called so far
\* was refused.
C30_NoQueueState ==
    defaultQueue = NilQueue =>
        /\ jobs = <<>> /\ delayed = <<>> /\ created = 0
        /\ \A j \in Slots : heap[j] = NoJob
        /\ \A t \in AllTypes : handlers[t] = NoHandler
        /\ stats = ZeroStats
        /\ lastPush \in {"none", "queue not initialized"}

\* C30: while Init has not created the default queue, the package-level
\* helpers touch no queue: the push helpers return "queue not initialized"
\* and enqueue nothing, GetStats returns all-zero counters, RegisterHandler
\* records nothing, and the queue Init creates has no handler that was
\* registered before.
C30_HelpersWithoutQueue ==
    /\ []C30_NoQueueState
    /\ [][ defaultQueue = NilQueue =>
             /\ defaultQueue' = NilQueue =>
                    UNCHANGED <<jobs, closed, cancelled, handlers, stats,
                                heap, created, started, pc, cur, delayed,
                                stopPc, crashed>>
             /\ lastPush' # lastPush => lastPush' = "queue not initialized"
             /\ (ret' # ret /\ ret' # NoRet) =>
                    (ret'.ref = "copy" /\ ret'.val = ZeroStats)
             /\ defaultQueue' # NilQueue =>
                    \A t \in AllTypes : handlers'[t] = NoHandler
         ]_vars

\* C30 witness: with DefaultQueue still nil after init() has run, a push
\* helper has been refused and GetStats has returned zeros.
C30_Witness ==
    /\ defaultQueue = NilQueue /\ prog = "main"
    /\ lastPush = "queue not initialized"
    /\ ret = StatsCopy(ZeroStats)
    /\ \A t \in AllTypes : handlers[t] = NoHandler

====
